---- MODULE Spec2Model ----
(***************************************************************************)
(* DigiReceipt (src/DigiAndQuote.py): invoice numbering and the record     *)
(* store.  One Streamlit session per element of Sessions; every session    *)
(* runs the script app() from top to bottom on each interaction, and all   *)
(* sessions share the SQLite tables invoices and invoices_full.            *)
(*                                                                         *)
(* Conventions of the model                                                *)
(*  - a Python dict is a TLA+ record; a key that is absent from the dict   *)
(*    is absent from the record's DOMAIN;                                  *)
(*  - a Python str that the program parses or formats (invoice_no) is a    *)
(*    sequence of one-character strings; other strings are TLA+ strings;   *)
(*  - amounts (price, line_total, subtotal, discount, grand_total) are     *)
(*    integers: the number of 0.01 steps of the number_input widgets;      *)
(*  - the table column id (INTEGER PRIMARY KEY AUTOINCREMENT) is the       *)
(*    number of rows inserted so far plus one, there being no DELETE.      *)
(***************************************************************************)
EXTENDS Integers, Sequences, FiniteSets, TLC

VARIABLES
    invoices,            \* table invoices: sequence of summary rows
    invoices_full,       \* table invoices_full: sequence of full-document rows
    user_id,             \* st.session_state["user_id"], per session
    invoice_data,        \* st.session_state["invoice_data"], per session (<<>>: key absent)
    show_client_details, \* st.session_state["show_client_details"], per session
    last_invoice_info,   \* st.session_state["last_invoice_info"], per session (<<>>: key absent)
    message,             \* the st.info/warning/success/error box of the session's last run
    pc,                  \* where the session's script run stands
    clock                \* datetime.now(): number of timestamps taken so far

vars == <<invoices, invoices_full, user_id, invoice_data, show_client_details,
          last_invoice_info, message, pc, clock>>

-----------------------------------------------------------------------------
(* Bounds and input sets *)

MaxRecords == 3      \* rows a table may hold
MaxItems   == 2      \* item rows of a draft
MaxStrLen  == 4      \* length of an invoice_no already in the table (SpecNum)

Sessions == {"s1", "s2"}
Owners   == {"shopA", "shopB"}
UserIds  == Owners \cup {""}

Absent == <<>>

VendorBlank == [name |-> "", address |-> "", phone |-> "", ntn |-> ""]
VendorAcme  == [name |-> "Acme", address |-> "1 Mall Rd", phone |-> "0300", ntn |-> "N-1"]
Vendors     == {VendorBlank, VendorAcme}

ClientBlank == [name |-> "", address |-> "", phone |-> "", ntn |-> "", notes |-> ""]
ClientZed   == [name |-> "Zed", address |-> "2 Canal Rd", phone |-> "0301", ntn |-> "", notes |-> "cash"]
Clients     == {ClientBlank, ClientZed}

DocTypes   == {"invoice", "quote"}
ItemNames  == {"", "Tea"}
Quantities == {1, 2}
Prices     == {0, 5, 10}
Discounts  == {0, 3, 30}

-----------------------------------------------------------------------------
(* Text: int(), format(…, "04d") *)

Digits == <<"0", "1", "2", "3", "4", "5", "6", "7", "8", "9">>

IsDigit(c) == \E i \in 1..10 : Digits[i] = c

DigitVal(c) == (CHOOSE i \in 1..10 : Digits[i] = c) - 1

RECURSIVE DecStr(_)
DecStr(n) == IF n < 10 THEN <<Digits[n + 1]>>
             ELSE DecStr(n \div 10) \o <<Digits[(n % 10) + 1]>>

RECURSIVE ZeroPad(_, _)
ZeroPad(s, w) == IF Len(s) >= w THEN s ELSE ZeroPad(<<"0">> \o s, w)

Format04dUnpadded(n) == IF n >= 0 THEN DecStr(n) ELSE <<"-">> \o DecStr(-n)

\* f"{n:04d}": sign-aware zero padding to a field width of 4
Format04d(n) == IF n >= 0 THEN ZeroPad(DecStr(n), 4)
                ELSE <<"-">> \o ZeroPad(DecStr(-n), 3)

RECURSIVE LStrip(_)
LStrip(s) == IF s # <<>> /\ s[1] = " " THEN LStrip(Tail(s)) ELSE s

RECURSIVE RStrip(_)
RStrip(s) == IF s # <<>> /\ s[Len(s)] = " " THEN RStrip(SubSeq(s, 1, Len(s) - 1)) ELSE s

Unsigned(s) == LET t == LStrip(RStrip(s))
               IN  IF t # <<>> /\ t[1] \in {"-", "+"} THEN Tail(t) ELSE t

IsNegative(s) == LET t == LStrip(RStrip(s)) IN t # <<>> /\ t[1] = "-"

\* int(s) raises ValueError unless s is [space]* [sign] digit ('_'? digit)* [space]*
IntParses(s) ==
    LET u == Unsigned(s)
    IN  /\ u # <<>>
        /\ \A i \in 1..Len(u) : IsDigit(u[i]) \/ u[i] = "_"
        /\ IsDigit(u[1]) /\ IsDigit(u[Len(u)])
        /\ \A i \in 1..(Len(u) - 1) : ~(u[i] = "_" /\ u[i + 1] = "_")

RECURSIVE DigitsValue(_)
DigitsValue(u) == IF u = <<>> THEN 0
                  ELSE IF u[Len(u)] = "_" THEN DigitsValue(SubSeq(u, 1, Len(u) - 1))
                  ELSE 10 * DigitsValue(SubSeq(u, 1, Len(u) - 1)) + DigitVal(u[Len(u)])

IntValue(s) == IF IsNegative(s) THEN 0 - DigitsValue(Unsigned(s)) ELSE DigitsValue(Unsigned(s))

-----------------------------------------------------------------------------
(* json.dumps / json.loads.  A JSON text is kept as its syntax tree:       *)
(* an object is the sequence of its members in the order written.          *)

JStr(s)  == [tag |-> "string", text |-> s]
JNum(n)  == [tag |-> "number", value |-> n]
JArr(es) == [tag |-> "array", elems |-> es]
JObj(ms) == [tag |-> "object", members |-> ms]

DumpVendor(v) == JObj(<< <<"name", JStr(v.name)>>, <<"address", JStr(v.address)>>,
                         <<"phone", JStr(v.phone)>>, <<"ntn", JStr(v.ntn)>> >>)

DumpClient(c) == JObj(<< <<"name", JStr(c.name)>>, <<"address", JStr(c.address)>>,
                         <<"phone", JStr(c.phone)>>, <<"ntn", JStr(c.ntn)>>,
                         <<"notes", JStr(c.notes)>> >>)

DumpItem(it) == JObj(<< <<"name", JStr(it.name)>>, <<"quantity", JNum(it.quantity)>>,
                        <<"price", JNum(it.price)>>, <<"line_total", JNum(it.line_total)>> >>)

DumpInfo(i) == JObj(<< <<"invoice_no", JStr(i.invoice_no)>>, <<"date", JStr(i.date)>>,
                       <<"timestamp", JStr(i.timestamp)>> >>)

DumpOptional(d) ==
    IF "invoice_info" \in DOMAIN d
    THEN << <<"invoice_info", DumpInfo(d.invoice_info)>>, <<"subtotal", JNum(d.subtotal)>>,
            <<"discount", JNum(d.discount)>>, <<"grand_total", JNum(d.grand_total)>> >>
    ELSE <<>>

json_dumps(d) ==
    JObj(<< <<"vendor", DumpVendor(d.vendor)>>, <<"client", DumpClient(d.client)>>,
            <<"items", JArr([i \in 1..Len(d.items) |-> DumpItem(d.items[i])])>>,
            <<"doc_type", JStr(d.doc_type)>> >> \o DumpOptional(d))

\* the value of the last member named k, as json.loads keeps the last duplicate
MemberValue(ms, k) == ms[CHOOSE i \in 1..Len(ms) :
                            /\ ms[i][1] = k
                            /\ \A j \in (i + 1)..Len(ms) : ms[j][1] # k][2]

RECURSIVE json_loads(_)
json_loads(j) ==
    CASE j.tag = "string" -> j.text
      [] j.tag = "number" -> j.value
      [] j.tag = "array"  -> [i \in 1..Len(j.elems) |-> json_loads(j.elems[i])]
      [] j.tag = "object" -> [k \in {j.members[i][1] : i \in 1..Len(j.members)} |->
                                 json_loads(MemberValue(j.members, k))]

-----------------------------------------------------------------------------
(* The record store *)

None == <<>>

\* a summary row whose total column cannot hold a negative amount
InvoiceRowClamped(tbl, timestamp, vendor, invoice_no, total, uid) ==
    [id |-> Len(tbl) + 1, timestamp |-> timestamp, vendor |-> vendor,
     invoice_no |-> invoice_no, total |-> IF total < 0 THEN 0 ELSE total, user_id |-> uid]

InvoiceRow(tbl, timestamp, vendor, invoice_no, total, uid) ==
    [id |-> Len(tbl) + 1, timestamp |-> timestamp, vendor |-> vendor,
     invoice_no |-> invoice_no, total |-> total, user_id |-> uid]

InvoiceFullRow(tbl, timestamp, invoice_no, invoice_json, uid) ==
    [id |-> Len(tbl) + 1, timestamp |-> timestamp, invoice_no |-> invoice_no,
     invoice_json |-> json_dumps(invoice_json), user_id |-> uid]

\* invoice_no under a UNIQUE constraint: the INSERT of a number already there fails
log_invoice_unique(timestamp, vendor, invoice_no, total, invoice_json, uid) ==
    IF \E i \in 1..Len(invoices) : invoices[i].invoice_no = invoice_no
    THEN UNCHANGED <<invoices, invoices_full>>
    ELSE /\ invoices' = Append(invoices, InvoiceRow(invoices, timestamp, vendor, invoice_no, total, uid))
         /\ invoices_full' = Append(invoices_full,
                                    InvoiceFullRow(invoices_full, timestamp, invoice_no, invoice_json, uid))

\* both INSERTs are committed together
log_invoice(timestamp, vendor, invoice_no, total, invoice_json, uid) ==
    /\ invoices' = Append(invoices, InvoiceRow(invoices, timestamp, vendor, invoice_no, total, uid))
    /\ invoices_full' = Append(invoices_full,
                               InvoiceFullRow(invoices_full, timestamp, invoice_no, invoice_json, uid))

\* SELECT * FROM invoices, without the WHERE clause
get_invoices_unfiltered(uid) == invoices

\* SELECT * FROM invoices WHERE user_id = ?
get_invoices_from_db(uid) == SelectSeq(invoices, LAMBDA r : r.user_id = uid)

FirstInvoiceRow(tbl) == CHOOSE r \in {tbl[i] : i \in 1..Len(tbl)} :
                            \A i \in 1..Len(tbl) : tbl[i].id >= r.id

\* SELECT invoice_no FROM invoices ORDER BY id DESC LIMIT 1
LastInvoiceRow(tbl) == CHOOSE r \in {tbl[i] : i \in 1..Len(tbl)} :
                           \A i \in 1..Len(tbl) : tbl[i].id <= r.id

\* int(row[0]) if row else 0, and 0 on ValueError
LastInvoiceNo(tbl) ==
    IF tbl = <<>> THEN 0
    ELSE IF IntParses(LastInvoiceRow(tbl).invoice_no) THEN IntValue(LastInvoiceRow(tbl).invoice_no)
    ELSE 0

get_last_invoice_no_from_db == LastInvoiceNo(invoices)

\* the lookup by number alone
FullMatchesAnyOwner(invoice_no, uid) ==
    SelectSeq(invoices_full, LAMBDA r : r.invoice_no = invoice_no)

\* SELECT invoice_json FROM invoices_full WHERE invoice_no = ? AND user_id = ?, fetchone():
\* the table has no index, so the scan yields the matching rows in id order
FullMatches(invoice_no, uid) ==
    SelectSeq(invoices_full, LAMBDA r : r.invoice_no = invoice_no /\ r.user_id = uid)

get_full_invoice_data(invoice_no, uid) ==
    LET result == FullMatches(invoice_no, uid)
    IN  IF result = <<>> THEN None ELSE json_loads(result[1].invoice_json)

-----------------------------------------------------------------------------
(* The form of app() *)

NewItem == [name |-> "", quantity |-> 1, price |-> 0]

\* the item loop: each row takes its widgets' values and its line_total
ItemRow(w) == [name |-> w.name, quantity |-> w.quantity, price |-> w.price,
               line_total |-> w.quantity * w.price]

DefaultDraft == [vendor |-> VendorBlank, client |-> ClientBlank,
                 items |-> <<ItemRow(NewItem)>>, doc_type |-> "invoice"]

\* a subtotal over the named items only
RECURSIVE SubtotalNamedOnly(_)
SubtotalNamedOnly(items) ==
    IF items = <<>> THEN 0
    ELSE SubtotalNamedOnly(SubSeq(items, 1, Len(items) - 1))
         + (IF items[Len(items)].name # "" THEN items[Len(items)].line_total ELSE 0)

RECURSIVE Subtotal(_)
Subtotal(items) == IF items = <<>> THEN 0
                   ELSE Subtotal(SubSeq(items, 1, Len(items) - 1)) + items[Len(items)].line_total

\* a submitted form: the values of the vendor, client, item and discount widgets
Widgets(it) == [name |-> it.name, quantity |-> it.quantity, price |-> it.price]

SameForm(d, discount) == [vendor |-> d.vendor, client |-> d.client,
                          items |-> [i \in 1..Len(d.items) |-> Widgets(d.items[i])],
                          discount |-> discount]

ApplyForm(d, f, show) ==
    [d EXCEPT !.vendor = f.vendor,
              !.client = IF show THEN f.client ELSE @,
              !.items  = [i \in 1..Len(d.items) |-> ItemRow(f.items[i])]]

incomplete_item_exists(items) ==
    \E i \in 1..Len(items) :
        items[i].name # "" /\ (items[i].quantity <= 0 \/ items[i].price <= 0)

\* a validity test that does not look at the name
is_valid_items_unnamed(items) ==
    \E i \in 1..Len(items) : items[i].quantity > 0 /\ items[i].price > 0

is_valid_items(items) ==
    \E i \in 1..Len(items) :
        items[i].name # "" /\ items[i].quantity > 0 /\ items[i].price > 0

\* a grand total that is never below 0
BuildInvoiceClamped(d, invoice_no, timestamp, subtotal, discount_amount) ==
    [k \in DOMAIN d \cup {"invoice_info", "subtotal", "discount", "grand_total"} |->
        CASE k = "invoice_info" -> [invoice_no |-> invoice_no, date |-> timestamp,
                                    timestamp |-> timestamp]
          [] k = "subtotal"     -> subtotal
          [] k = "discount"     -> discount_amount
          [] k = "grand_total"  -> IF subtotal < discount_amount THEN 0
                                   ELSE subtotal - discount_amount
          [] OTHER              -> d[k]]

BuildInvoice(d, invoice_no, timestamp, subtotal, discount_amount) ==
    [k \in DOMAIN d \cup {"invoice_info", "subtotal", "discount", "grand_total"} |->
        CASE k = "invoice_info" -> [invoice_no |-> invoice_no, date |-> timestamp,
                                    timestamp |-> timestamp]
          [] k = "subtotal"     -> subtotal
          [] k = "discount"     -> discount_amount
          [] k = "grand_total"  -> subtotal - discount_amount
          [] OTHER              -> d[k]]

-----------------------------------------------------------------------------------------------------------------------------------------------------
(* Form submissions *)

\* offered to the two sessions of Spec: one that passes validation, two that do not
FormOverDiscount == [vendor |-> VendorAcme, client |-> ClientBlank, discount |-> 30,
                     items |-> <<[name |-> "Tea", quantity |-> 1, price |-> 5]>>]
FormZeroPrice    == [vendor |-> VendorAcme, client |-> ClientBlank, discount |-> 0,
                     items |-> <<[name |-> "Tea", quantity |-> 2, price |-> 0]>>]
FormUnnamed      == [vendor |-> VendorBlank, client |-> ClientBlank, discount |-> 0,
                     items |-> <<[name |-> "", quantity |-> 1, price |-> 5]>>]
FormMenu == {FormOverDiscount, FormZeroPrice, FormUnnamed}

\* drawn for the session of SpecForm: every filling of up to MaxItems item rows
ItemInputs == [name : ItemNames, quantity : Quantities, price : Prices]

ItemFillings == UNION {[1..n -> ItemInputs] : n \in 1..MaxItems}

FilledDraft(ws) == [DefaultDraft EXCEPT !.items = [i \in 1..Len(ws) |-> ItemRow(ws[i])]]

\* invoice_no texts a table may already hold when the program starts (SpecNum)
Alphabet == {"0", "7", "9", "-", " ", "x"}

Texts == UNION {[1..n -> Alphabet] : n \in 0..MaxStrLen}

LoadInputs == {Format04d(k) : k \in 1..MaxRecords}

-----------------------------------------------------------------------------
(* Script runs.  A run that reaches the database more than once is split   *)
(* where another session's run can come in between: after the read of the  *)
(* last number, and after the commit of log_invoice.                       *)

Init ==
    /\ invoices = <<>>
    /\ invoices_full = <<>>
    /\ user_id = [s \in Sessions |-> ""]
    /\ invoice_data = [s \in Sessions |-> Absent]
    /\ show_client_details = [s \in Sessions |-> FALSE]
    /\ last_invoice_info = [s \in Sessions |-> Absent]
    /\ message = [s \in Sessions |-> "user_id_info"]
    /\ pc = [s \in Sessions |-> "idle"]
    /\ clock = 0

\* a run that goes on with an empty user id
ReadyUngated(s) == pc[s] = "idle" /\ invoice_data[s] # Absent

Ready(s) == pc[s] = "idle" /\ user_id[s] # "" /\ invoice_data[s] # Absent

InFlight == Cardinality({s \in Sessions : pc[s] = "log"})

\* the user id box changes; an empty id stops the run before anything else
SetUserId(s, u) ==
    /\ pc[s] = "idle"
    /\ u # user_id[s]
    /\ user_id' = [user_id EXCEPT ![s] = u]
    /\ IF u = ""
       THEN /\ message' = [message EXCEPT ![s] = "user_id_info"]
            /\ UNCHANGED invoice_data
       ELSE /\ message' = [message EXCEPT ![s] = "none"]
            /\ invoice_data' = [invoice_data EXCEPT ![s] = IF @ = Absent THEN DefaultDraft ELSE @]
    /\ UNCHANGED <<invoices, invoices_full, show_client_details, last_invoice_info, pc, clock>>

ToggleClientDetails(s) ==
    /\ Ready(s)
    /\ show_client_details' = [show_client_details EXCEPT ![s] = ~@]
    /\ message' = [message EXCEPT ![s] = "none"]
    /\ UNCHANGED <<invoices, invoices_full, user_id, invoice_data, last_invoice_info, pc, clock>>

SetDocType(s, t) ==
    /\ Ready(s)
    /\ t # invoice_data[s].doc_type
    /\ invoice_data' = [invoice_data EXCEPT ![s].doc_type = t]
    /\ message' = [message EXCEPT ![s] = "none"]
    /\ UNCHANGED <<invoices, invoices_full, user_id, show_client_details, last_invoice_info, pc, clock>>

AddItem(s) ==
    /\ Ready(s)
    /\ Len(invoice_data[s].items) < MaxItems
    /\ invoice_data' = [invoice_data EXCEPT ![s].items = Append(@, ItemRow(NewItem))]
    /\ message' = [message EXCEPT ![s] = "none"]
    /\ UNCHANGED <<invoices, invoices_full, user_id, show_client_details, last_invoice_info, pc, clock>>

RemoveItem(s) ==
    /\ Ready(s)
    /\ Len(invoice_data[s].items) > 1
    /\ invoice_data' = [invoice_data EXCEPT ![s].items = SubSeq(@, 1, Len(@) - 1)]
    /\ message' = [message EXCEPT ![s] = "none"]
    /\ UNCHANGED <<invoices, invoices_full, user_id, show_client_details, last_invoice_info, pc, clock>>

\* a rejection that comes after the save: the draft is stored under the next number
RejectedAfterSave(s, d, warning) ==
    /\ message' = [message EXCEPT ![s] = warning]
    /\ last_invoice_info' = [last_invoice_info EXCEPT ![s] = Absent]
    /\ invoice_data' = [invoice_data EXCEPT ![s] = d]
    /\ IF Len(invoices) + InFlight < MaxRecords
       THEN log_invoice(clock, d.vendor.name, Format04d(get_last_invoice_no_from_db + 1), 0,
                        d, user_id[s])
       ELSE UNCHANGED <<invoices, invoices_full>>
    /\ UNCHANGED <<pc, clock>>

\* a rejection that leaves the download state of the last success in place
RejectedKeepingDownload(s, d, warning) ==
    /\ message' = [message EXCEPT ![s] = warning]
    /\ invoice_data' = [invoice_data EXCEPT ![s] = d]
    /\ UNCHANGED <<invoices, invoices_full, last_invoice_info, pc, clock>>

\* a failed attempt clears the download state; nothing else of the run writes
Rejected(s, d, warning) ==
    /\ message' = [message EXCEPT ![s] = warning]
    /\ last_invoice_info' = [last_invoice_info EXCEPT ![s] = Absent]
    /\ invoice_data' = [invoice_data EXCEPT ![s] = d]
    /\ UNCHANGED <<invoices, invoices_full, pc, clock>>

\* a resubmitted document keeps the number it already carries
AcceptedKeepingNumber(s, d, subtotal, discount_amount) ==
    /\ Len(invoices) + InFlight < MaxRecords
    /\ invoice_data' = [invoice_data EXCEPT ![s] =
           BuildInvoice(d, IF "invoice_info" \in DOMAIN d THEN d.invoice_info.invoice_no
                           ELSE Format04d(get_last_invoice_no_from_db + 1),
                        clock + 1, subtotal, discount_amount)]
    /\ clock' = clock + 1
    /\ pc' = [pc EXCEPT ![s] = "log"]
    /\ message' = [message EXCEPT ![s] = "none"]
    /\ UNCHANGED <<invoices, invoices_full, last_invoice_info>>

\* the number after the last one in the table, the timestamp, the finished document
Accepted(s, d, subtotal, discount_amount) ==
    /\ Len(invoices) + InFlight < MaxRecords
    /\ invoice_data' = [invoice_data EXCEPT ![s] =
           BuildInvoice(d, Format04d(get_last_invoice_no_from_db + 1), clock + 1,
                        subtotal, discount_amount)]
    /\ clock' = clock + 1
    /\ pc' = [pc EXCEPT ![s] = "log"]
    /\ message' = [message EXCEPT ![s] = "none"]
    /\ UNCHANGED <<invoices, invoices_full, last_invoice_info>>

\* Generate pressed with the form values f: the widgets' values go into the draft,
\* then validation, then the read of the last number
Generate(s, f) ==
    /\ Ready(s)
    /\ Len(f.items) = Len(invoice_data[s].items)
    /\ LET d == ApplyForm(invoice_data[s], f, show_client_details[s])
       IN  IF incomplete_item_exists(d.items)
           THEN Rejected(s, d, "item_validation_warning")
           ELSE IF ~is_valid_items(d.items)
           THEN Rejected(s, d, "validation_warning")
           ELSE Accepted(s, d, Subtotal(d.items), f.discount)
    /\ UNCHANGED <<user_id, show_client_details>>

GenerateLog(s) ==
    /\ pc[s] = "log"
    /\ LET d == invoice_data[s]
       IN  log_invoice(d.invoice_info.timestamp, d.vendor.name, d.invoice_info.invoice_no,
                       d.grand_total, d, user_id[s])
    /\ pc' = [pc EXCEPT ![s] = "readback"]
    /\ UNCHANGED <<user_id, invoice_data, show_client_details, last_invoice_info, message, clock>>

\* the read back for the QR code, the download state, the rest of the run
GenerateFinish(s) ==
    /\ pc[s] = "readback"
    /\ last_invoice_info' = [last_invoice_info EXCEPT ![s] =
           [invoice_no |-> invoice_data[s].invoice_info.invoice_no,
            qr_data    |-> get_full_invoice_data(invoice_data[s].invoice_info.invoice_no,
                                                 user_id[s])]]
    /\ message' = [message EXCEPT ![s] = "success_message"]
    /\ pc' = [pc EXCEPT ![s] = "idle"]
    /\ UNCHANGED <<invoices, invoices_full, user_id, invoice_data, show_client_details, clock>>

\* Load Document pressed with the number n typed in; a found document replaces the
\* draft and st.rerun() runs the script again, which redraws the widgets from it
LoadDocument(s, n) ==
    /\ Ready(s)
    /\ LET loaded_data == get_full_invoice_data(n, user_id[s])
       IN  IF loaded_data # None
           THEN /\ invoice_data' = [invoice_data EXCEPT ![s] =
                       [loaded_data EXCEPT !.doc_type = invoice_data[s].doc_type,
                                           !.items = [i \in 1..Len(@) |-> ItemRow(@[i])]]]
                /\ message' = [message EXCEPT ![s] = "none"]
           ELSE /\ message' = [message EXCEPT ![s] = "not_found"]
                /\ UNCHANGED invoice_data
    /\ UNCHANGED <<invoices, invoices_full, user_id, show_client_details, last_invoice_info, pc, clock>>

\* Spec: two sessions, each under the owner id it entered first; the owners being
\* interchangeable, the first session is shopA's and the second is either shop's
OwnersOf(s) == IF s = "s1" THEN {"shopA"} ELSE Owners

Next ==
    \E s \in Sessions :
        \/ \E u \in OwnersOf(s) : user_id[s] = "" /\ SetUserId(s, u)
        \/ \E f \in FormMenu : Generate(s, f)
        \/ GenerateLog(s)
        \/ GenerateFinish(s)
        \/ \E n \in LoadInputs : LoadDocument(s, n)

Spec == Init /\ [][Next]_vars

\* SpecForm: one session whose item rows hold any filling, up to its first stored document
InitForm ==
    /\ invoices = <<>>
    /\ invoices_full = <<>>
    /\ user_id = [s \in Sessions |-> ""]
    /\ invoice_data \in {[s \in Sessions |-> IF s = "s1" THEN FilledDraft(ws) ELSE Absent] :
                            ws \in ItemFillings}
    /\ show_client_details = [s \in Sessions |-> FALSE]
    /\ last_invoice_info = [s \in Sessions |-> Absent]
    /\ message = [s \in Sessions |-> "user_id_info"]
    /\ pc = [s \in Sessions |-> "idle"]
    /\ clock = 0

NextForm ==
    \/ \E u \in Owners : user_id["s1"] = "" /\ SetUserId("s1", u)
    \/ invoices = <<>> /\ ToggleClientDetails("s1")
    \/ invoices = <<>> /\ \E t \in DocTypes : SetDocType("s1", t)
    \/ invoices = <<>> /\ AddItem("s1")
    \/ invoices = <<>> /\ RemoveItem("s1")
    \/ /\ invoices = <<>>
       /\ Ready("s1")
       /\ \E discount \in Discounts :
              Generate("s1", [SameForm(invoice_data["s1"], discount) EXCEPT !.client = ClientZed])
    \/ GenerateLog("s1")
    \/ GenerateFinish("s1")
    \/ \E n \in LoadInputs : LoadDocument("s1", n)

SpecForm == InitForm /\ [][NextForm]_vars

\* SpecNum: the tables of an earlier installation, whose last summary row holds any text
LegacyRow(t) == [id |-> 1, timestamp |-> 0, vendor |-> "Acme", invoice_no |-> t,
                 total |-> 5, user_id |-> "shopA"]

InitNum ==
    /\ invoices \in {<<>>} \cup {<<LegacyRow(t)>> : t \in Texts}
    /\ invoices_full = <<>>
    /\ user_id = [s \in Sessions |-> ""]
    /\ invoice_data = [s \in Sessions |-> Absent]
    /\ show_client_details = [s \in Sessions |-> FALSE]
    /\ last_invoice_info = [s \in Sessions |-> Absent]
    /\ message = [s \in Sessions |-> "user_id_info"]
    /\ pc = [s \in Sessions |-> "idle"]
    /\ clock = 0

NextNum ==
    \/ user_id["s1"] = "" /\ SetUserId("s1", "shopA")
    \/ Generate("s1", FormOverDiscount)
    \/ GenerateLog("s1")
    \/ GenerateFinish("s1")

SpecNum == InitNum /\ [][NextNum]_vars

\* SpecSeq: the sessions of Spec with every run finished before the next one starts
NoRunInProgress == \A t \in Sessions : pc[t] = "idle"

NextSeq ==
    \E s \in Sessions :
        \/ \E u \in OwnersOf(s) : NoRunInProgress /\ user_id[s] = "" /\ SetUserId(s, u)
        \/ \E f \in FormMenu : NoRunInProgress /\ Generate(s, f)
        \/ GenerateLog(s)
        \/ GenerateFinish(s)
        \/ \E n \in LoadInputs : NoRunInProgress /\ LoadDocument(s, n)

SpecSeq == Init /\ [][NextSeq]_vars

\* SpecRetry: one session that generates and loads again and again, its draft of one to
\* MaxItems rows, the rows before the last filled in and valid, the last one valid,
\* named with price 0, or unnamed
ItemTea == [name |-> "Tea", quantity |-> 1, price |-> 5]

LastItems == {ItemTea, [name |-> "Tea", quantity |-> 2, price |-> 0],
              [name |-> "", quantity |-> 1, price |-> 5]}

RetryForms(n) ==
    {[vendor |-> VendorAcme, client |-> ClientBlank, discount |-> 0,
      items |-> [i \in 1..n |-> IF i = n THEN last ELSE ItemTea]] : last \in LastItems}

NextRetry ==
    \/ user_id["s1"] = "" /\ SetUserId("s1", "shopA")
    \/ invoices = <<>> /\ AddItem("s1")
    \/ /\ Ready("s1")
       /\ \E f \in RetryForms(Len(invoice_data["s1"].items)) : Generate("s1", f)
    \/ GenerateLog("s1")
    \/ GenerateFinish("s1")
    \/ \E n \in LoadInputs : LoadDocument("s1", n)

SpecRetry == Init /\ [][NextRetry]_vars

\* SpecOwner: one session whose user id box is changed at will, also back to empty
NextOwner ==
    \/ \E u \in UserIds : SetUserId("s1", u)
    \/ \E f \in FormMenu : Generate("s1", f)
    \/ GenerateLog("s1")
    \/ GenerateFinish("s1")
    \/ \E n \in LoadInputs : LoadDocument("s1", n)

SpecOwner == Init /\ [][NextOwner]_vars

-----------------------------------------------------------------------------
(* Properties *)

StoredNo(s) == invoice_data[s].invoice_info.invoice_no

Rows(tbl) == {tbl[i] : i \in 1..Len(tbl)}

AllDigits(a) == \A i \in 1..Len(a) : IsDigit(a[i])

\* the decimal string of n >= 0, left-padded with zeros to at least 4 digits
IsPadded4(a, n) ==
    /\ AllDigits(a)
    /\ Len(a) >= 4
    /\ Len(a) > 4 => a[1] # "0"
    /\ DigitsValue(a) = n

AssignedAsClaimed(tbl, a) ==
    IF tbl = <<>> \/ ~IntParses(tbl[Len(tbl)].invoice_no)
    THEN a = <<"0", "0", "0", "1">>
    ELSE IsPadded4(a, IntValue(tbl[Len(tbl)].invoice_no) + 1)

\* a minus sign, then the decimal string of n > 0 left-padded with zeros to at least 3 digits
IsSignedPadded4(a, n) ==
    /\ a # <<>> /\ a[1] = "-"
    /\ AllDigits(Tail(a))
    /\ Len(a) >= 4
    /\ Len(a) > 4 => a[2] # "0"
    /\ DigitsValue(Tail(a)) = n

AssignedAsFormatted(tbl, a) ==
    IF tbl = <<>> \/ ~IntParses(tbl[Len(tbl)].invoice_no)
    THEN a = <<"0", "0", "0", "1">>
    ELSE LET k == IntValue(tbl[Len(tbl)].invoice_no)
         IN  IF k + 1 >= 0 THEN IsPadded4(a, k + 1) ELSE IsSignedPadded4(a, 0 - (k + 1))

ReadsLastNumber(s) == pc[s] = "idle" /\ pc'[s] = "log"

\* C2 as claimed: a generate that passes validation assigns the decimal string of k + 1
\* zero-padded to at least 4 digits when the last summary row holds a text that parses
\* as k, and "0001" when the table is empty or that text does not parse
C2_NextNumberPadded ==
    [][\A s \in Sessions : ReadsLastNumber(s) => AssignedAsClaimed(invoices, StoredNo(s)')]_vars

\* C2 amended: as C2, and when k + 1 is negative the number assigned is a minus sign
\* followed by -(k + 1) zero-padded to at least 3 digits (a field of width 4)
C2_NextNumberFormatted ==
    [][\A s \in Sessions : ReadsLastNumber(s) => AssignedAsFormatted(invoices, StoredNo(s)')]_vars

C2_Witness ==
    /\ invoices = <<LegacyRow(<<"0", "0", "0", "7">>)>>
    /\ pc["s1"] = "log"
    /\ StoredNo("s1") = <<"0", "0", "0", "8">>

RECURSIVE MaxOf(_)
MaxOf(S) == IF S = {} THEN 0
            ELSE LET x == CHOOSE x \in S : TRUE
                     m == MaxOf(S \ {x})
                 IN  IF x > m THEN x ELSE m

IssuedNumbers == {IntValue(r.invoice_no) : r \in Rows(invoices)}

\* C3 as claimed: get_last_invoice_no_from_db returns the highest invoice number of all
\* summary rows, whoever owns them (0 when there is none)
C3_ReadsHighest == get_last_invoice_no_from_db = MaxOf(IssuedNumbers)

\* C3 amended: get_last_invoice_no_from_db returns the invoice number of the summary row
\* inserted last, whoever owns it (0 when there is none); that is the highest number
\* as long as no two rows share a number
C3_ReadsLatest ==
    /\ get_last_invoice_no_from_db =
           (IF invoices = <<>> THEN 0 ELSE IntValue(invoices[Len(invoices)].invoice_no))
    /\ Cardinality(IssuedNumbers) = Len(invoices) => get_last_invoice_no_from_db = MaxOf(IssuedNumbers)

C3_Witness ==
    /\ Len(invoices) = 3
    /\ invoices[1].user_id # invoices[3].user_id
    /\ get_last_invoice_no_from_db = 1
    /\ MaxOf(IssuedNumbers) = 2

\* C4: for every owner o the listing get_invoices_from_db(o) holds the summary rows whose
\* user_id is o, each once, and no row of another owner; the row a session has just
\* stored is in its own owner's listing and in no other
C4_ListingIsolation ==
    /\ \A o \in Owners :
           LET listing == get_invoices_from_db(o)
           IN  /\ \A i \in 1..Len(listing) : listing[i].user_id = o
               /\ \A r \in Rows(invoices) : r.user_id = o => r \in Rows(listing)
               /\ Cardinality(Rows(listing)) = Len(listing)
    /\ \A s \in Sessions : pc[s] = "readback" =>
           \A o \in Owners :
               (\E r \in Rows(get_invoices_from_db(o)) :
                    r.timestamp = invoice_data[s].invoice_info.timestamp) <=> o = user_id[s]

C4_Witness ==
    /\ Len(invoices) = 3
    /\ Len(get_invoices_from_db("shopA")) = 2
    /\ Len(get_invoices_from_db("shopB")) = 1

StoredUnder(n, o) == \E r \in Rows(invoices_full) : r.invoice_no = n /\ r.user_id = o

\* C5: get_full_invoice_data(n, o) returns a document exactly when a record numbered n
\* is stored under owner o, and then a document stored under (n, o); a record numbered
\* n under another owner alone gives None.  A load of a number that is not found
\* leaves the draft as it was and shows the error
C5_ScopedRetrieval ==
    /\ [](\A n \in LoadInputs, o \in Owners :
              LET found == get_full_invoice_data(n, o)
              IN  /\ found # None <=> StoredUnder(n, o)
                  /\ found # None =>
                        /\ found.invoice_info.invoice_no = n
                        /\ \E r \in Rows(invoices_full) :
                               r.user_id = o /\ json_loads(r.invoice_json) = found)
    /\ [][\A s \in Sessions, n \in LoadInputs :
              (~StoredUnder(n, user_id[s]) /\ LoadDocument(s, n)) =>
                  (invoice_data' = invoice_data /\ message'[s] = "not_found")]_vars

C5_Witness ==
    /\ user_id["s1"] = "shopA" /\ message["s1"] = "not_found"
    /\ Len(invoices_full) = 3
    /\ \A r \in Rows(invoices_full) : r.user_id = "shopB"
    /\ \A n \in LoadInputs : StoredUnder(n, "shopB")

StoredDocuments == {json_loads(r.invoice_json) : r \in Rows(invoices_full)}

RECURSIVE SumOfLineTotals(_)
SumOfLineTotals(items) ==
    IF items = <<>> THEN 0 ELSE Head(items).line_total + SumOfLineTotals(Tail(items))

\* C6: in every stored document each line_total is quantity x price, subtotal is the sum
\* of the line totals of all items, named or not, and grand_total is subtotal - discount
C6_Totals ==
    \A D \in StoredDocuments :
        /\ \A i \in 1..Len(D.items) : D.items[i].line_total = D.items[i].quantity * D.items[i].price
        /\ D.subtotal = SumOfLineTotals(D.items)
        /\ D.grand_total = D.subtotal - D.discount

\* items (qty 2, price 10) and (qty 1, price 5), the second unnamed, with discount 3
C6_Witness ==
    \E D \in StoredDocuments :
        /\ Len(D.items) = 2
        /\ D.items[1].name = "Tea" /\ D.items[1].quantity = 2 /\ D.items[1].price = 10
        /\ D.items[2].name = "" /\ D.items[2].quantity = 1 /\ D.items[2].price = 5
        /\ D.discount = 3 /\ D.subtotal = 25 /\ D.grand_total = 22

HasCompleteItem(items) ==
    \E i \in 1..Len(items) : items[i].name # "" /\ items[i].quantity > 0 /\ items[i].price > 0

\* C7: a generate whose draft has no item with a name, a quantity > 0 and a price > 0 is
\* rejected: it gets no number, and every stored document has such an item
C7_ValidationGate ==
    /\ \A s \in Sessions : pc[s] # "idle" => HasCompleteItem(invoice_data[s].items)
    /\ \A D \in StoredDocuments : HasCompleteItem(D.items)

\* every item named and priced 0: rejected, nothing stored
C7_Witness ==
    /\ pc["s1"] = "idle" /\ message["s1"] = "item_validation_warning"
    /\ Len(invoice_data["s1"].items) = 2
    /\ \A i \in 1..2 : invoice_data["s1"].items[i].name # "" /\ invoice_data["s1"].items[i].price = 0
    /\ invoices = <<>> /\ invoices_full = <<>>

Warnings == {"item_validation_warning", "validation_warning"}

\* C8: a generate that validation rejects changes no row of either table, and leaves
\* the number the next generate will be given as it was
C8_NoPartialSave ==
    [][\/ /\ invoices' = invoices
          /\ invoices_full' = invoices_full
          /\ LastInvoiceNo(invoices') = LastInvoiceNo(invoices)
       \/ \A s \in Sessions, f \in FormMenu :
              ~(message'[s] \in Warnings /\ Generate(s, f))]_vars

\* rejected with records of both owners in the tables
C8_Witness ==
    /\ message["s2"] = "validation_warning"
    /\ last_invoice_info["s2"] = Absent
    /\ Len(invoices) = 2
    /\ get_last_invoice_no_from_db = 2

IsPrefix(a, b) == Len(a) <= Len(b) /\ \A i \in 1..Len(a) : a[i] = b[i]

\* C9: no step changes or removes a stored row, and every document stored under (n, o)
\* is the document get_full_invoice_data(n, o) returns, from then on
C9_StoredDocumentReturned ==
    /\ [][IsPrefix(invoices, invoices') /\ IsPrefix(invoices_full, invoices_full')]_vars
    /\ [](\A r \in Rows(invoices_full) :
              get_full_invoice_data(r.invoice_no, r.user_id) = json_loads(r.invoice_json))

\* C10: the two tables hold the same number of rows, and the i-th summary row carries
\* the id, owner, timestamp and number of the i-th document row, the document's
\* invoice_info.invoice_no and timestamp, its vendor name and its grand_total
C10_SummaryMatchesDocument ==
    /\ Len(invoices) = Len(invoices_full)
    /\ \A i \in 1..Len(invoices) :
           LET r == invoices[i]
               g == invoices_full[i]
               D == json_loads(g.invoice_json)
           IN  /\ r.id = g.id /\ r.user_id = g.user_id
               /\ r.timestamp = g.timestamp /\ r.invoice_no = g.invoice_no
               /\ r.invoice_no = D.invoice_info.invoice_no
               /\ r.timestamp = D.invoice_info.timestamp
               /\ r.vendor = D.vendor.name
               /\ r.total = D.grand_total

C10_Witness ==
    /\ Len(invoices) = 3
    /\ invoices[1].user_id # invoices[2].user_id
    /\ invoices[3].total < 0

StoredNumbers == {r.invoice_no : r \in Rows(invoices)}

\* C11: with the runs one after the other from empty tables, the k-th stored record has
\* number k, a generate is given a number no stored record has, and a draft that
\* carries a number already (loaded, or generated before) is given another one
C11_FreshNumber ==
    /\ [](\A k \in 1..Len(invoices) :
              /\ IntParses(invoices[k].invoice_no) /\ IntValue(invoices[k].invoice_no) = k
              /\ invoices_full[k].invoice_no = invoices[k].invoice_no)
    /\ [][\A s \in Sessions :
              (pc[s] = "idle" /\ pc'[s] = "log") =>
                  /\ StoredNo(s)' \notin StoredNumbers
                  /\ "invoice_info" \in DOMAIN invoice_data[s] => StoredNo(s)' # StoredNo(s)]_vars

\* a session that stored 0001 stores 0003 after the other owner's 0002
C11_Witness ==
    \E s \in Sessions :
        /\ pc[s] = "readback"
        /\ StoredNo(s) = <<"0", "0", "0", "3">>
        /\ Len(invoices) = 3
        /\ invoices[1].user_id = user_id[s]
        /\ invoices[2].user_id # user_id[s]
        /\ invoices[3].invoice_no = StoredNo(s)

\* C12: a session that reads the last number while another holds the number after it,
\* not yet inserted, is given that same number; each then inserts its rows whatever the
\* tables hold; and of two documents stored under one number and owner,
\* get_full_invoice_data returns the one inserted first, never the other
C12_DuplicateRace ==
    /\ [][\A s, t \in Sessions :
              (/\ s # t /\ pc[s] = "log" /\ pc[t] = "idle" /\ pc'[t] = "log"
               /\ StoredNo(s) = Format04d(LastInvoiceNo(invoices) + 1)) =>
                  StoredNo(t)' = StoredNo(s)]_vars
    /\ [][\A s \in Sessions :
              (pc[s] = "log" /\ pc'[s] = "readback") =>
                  /\ Len(invoices') = Len(invoices) + 1
                  /\ Len(invoices_full') = Len(invoices_full) + 1
                  /\ invoices'[Len(invoices')].invoice_no = StoredNo(s)
                  /\ invoices'[Len(invoices')].user_id = user_id[s]
                  /\ invoices_full'[Len(invoices_full')].invoice_no = StoredNo(s)
                  /\ invoices_full'[Len(invoices_full')].user_id = user_id[s]]_vars
    /\ [](\A i, j \in 1..Len(invoices_full) :
              (/\ i < j
               /\ invoices_full[i].invoice_no = invoices_full[j].invoice_no
               /\ invoices_full[i].user_id = invoices_full[j].user_id
               /\ \A h \in 1..(i - 1) :
                      ~(/\ invoices_full[h].invoice_no = invoices_full[i].invoice_no
                        /\ invoices_full[h].user_id = invoices_full[i].user_id)) =>
                  LET found == get_full_invoice_data(invoices_full[i].invoice_no,
                                                     invoices_full[i].user_id)
                  IN  /\ found = json_loads(invoices_full[i].invoice_json)
                      /\ found # json_loads(invoices_full[j].invoice_json))

\* both sessions of shopA have stored a document under 0001
C12_Witness ==
    /\ Len(invoices) = 2 /\ Len(invoices_full) = 2
    /\ \A i \in 1..2 : /\ invoices[i].invoice_no = <<"0", "0", "0", "1">>
                         /\ invoices[i].user_id = "shopA"
                         /\ invoices_full[i].invoice_no = <<"0", "0", "0", "1">>
                         /\ invoices_full[i].user_id = "shopA"
    /\ pc["s1"] = "readback" /\ pc["s2"] = "readback"
    /\ get_full_invoice_data(<<"0", "0", "0", "1">>, "shopA") # invoice_data["s2"]
       \/ get_full_invoice_data(<<"0", "0", "0", "1">>, "shopA") # invoice_data["s1"]

HasIncompleteNamedItem(items) ==
    \E i \in 1..Len(items) :
        items[i].name # "" /\ (items[i].quantity <= 0 \/ items[i].price <= 0)

\* the form of SpecForm's generate with the discount box at discount
FormWith(discount) ==
    [SameForm(invoice_data["s1"], discount) EXCEPT !.client = ClientZed]

\* stored documents: discount >= 0, subtotal > 0, and a discount above the subtotal is
\* stored as a negative grand_total and a negative summary total
NegativeTotalsStored ==
    \A i \in 1..Len(invoices_full) :
        LET D == json_loads(invoices_full[i].invoice_json)
        IN  /\ D.discount >= 0 /\ D.subtotal > 0
            /\ D.discount > D.subtotal => (D.grand_total < 0 /\ invoices[i].total < 0)

\* C13 as claimed: every generate with at least one valid item and a discount greater
\* than the subtotal passes validation, and is stored with a negative grand_total and
\* summary total; stored documents have discount >= 0 and subtotal > 0
C13_ValidItemPasses ==
    /\ [][\A discount \in Discounts :
              (/\ Ready("s1") /\ invoices = <<>>
               /\ Generate("s1", FormWith(discount))
               /\ HasCompleteItem(invoice_data'["s1"].items)
               /\ discount > SumOfLineTotals(invoice_data'["s1"].items)) =>
                  pc'["s1"] = "log"]_vars
    /\ []NegativeTotalsStored

\* C13 amended: every generate with at least one valid item, no named item of quantity
\* or price 0, and a discount greater than the subtotal passes validation, and is stored
\* with a negative grand_total and summary total; stored documents have discount >= 0
\* and subtotal > 0
C13_NoClamp ==
    /\ [][\A discount \in Discounts :
              (/\ Ready("s1") /\ invoices = <<>>
               /\ Generate("s1", FormWith(discount))
               /\ HasCompleteItem(invoice_data'["s1"].items)
               /\ ~HasIncompleteNamedItem(invoice_data'["s1"].items)
               /\ discount > SumOfLineTotals(invoice_data'["s1"].items)) =>
                  pc'["s1"] = "log"]_vars
    /\ []NegativeTotalsStored

\* Tea 2 x 10 and an unnamed 1 x 5 under discount 30: stored with grand_total -5
C13_Witness ==
    /\ Len(invoices) = 1
    /\ invoices[1].total = 0 - 5
    /\ LET D == json_loads(invoices_full[1].invoice_json)
       IN  /\ Len(D.items) = 2
           /\ D.items[1].name = "Tea" /\ D.items[2].name = ""
           /\ D.subtotal = 25 /\ D.discount = 30 /\ D.grand_total = 0 - 5

NamedItemsComplete(items) ==
    \A i \in 1..Len(items) :
        items[i].name # "" => (items[i].quantity > 0 /\ items[i].price > 0)

\* C14: a generate whose draft has a named item of quantity <= 0 or price <= 0 is
\* rejected, other items valid or not: both tables stay as they are, the download state
\* is cleared, no number is read; and in every stored document every named item has
\* quantity > 0 and price > 0
C14_IncompleteItemBlocks ==
    /\ [][\A n \in 1..MaxItems : \A f \in RetryForms(n) :
              (/\ Ready("s1")
               /\ HasIncompleteNamedItem(f.items)
               /\ Generate("s1", f)) =>
                  /\ invoices' = invoices /\ invoices_full' = invoices_full
                  /\ last_invoice_info'["s1"] = Absent
                  /\ message'["s1"] = "item_validation_warning"
                  /\ pc'["s1"] = "idle"]_vars
    /\ [](/\ pc["s1"] # "idle" => NamedItemsComplete(invoice_data["s1"].items)
          /\ \A D \in StoredDocuments : NamedItemsComplete(D.items))

\* after a stored document with an unnamed item counted in its subtotal, a generate of
\* a valid Tea with a second Tea of price 0 has been rejected and the download cleared
C14_Witness ==
    /\ Len(invoices) >= 1
    /\ LET D == json_loads(invoices_full[1].invoice_json)
       IN  Len(D.items) = 2 /\ D.items[2].name = "" /\ D.subtotal = 10
    /\ pc["s1"] = "idle"
    /\ message["s1"] = "item_validation_warning"
    /\ last_invoice_info["s1"] = Absent
    /\ Len(invoice_data["s1"].items) = 2
    /\ invoice_data["s1"].items[1] = ItemRow(ItemTea)
    /\ invoice_data["s1"].items[2].name = "Tea" /\ invoice_data["s1"].items[2].price = 0

====
